---- MODULE Spec2Model ----
(***************************************************************************)
(* Model of the multiple-choice evaluation core of RAG-on-text-book:       *)
(*   - MCQEvaluator.evaluate          (src/eval/evaluator/__init__.py)     *)
(*   - MultipleChoiceEvaluationPipeline                                    *)
(*                        (src/eval/eval_pipeline/multiple_choice_eval.py) *)
(*   - load_eval_dataset / load_eval_dataset_by_grade (src/utils/eval.py)  *)
(*                                                                         *)
(* Python values are encoded as follows.                                   *)
(*   str        a sequence of one-character strings, "" is << >>           *)
(*   Optional   None is << >>, a present value v is << v >>                *)
(*   list       a sequence                                                 *)
(*   call       an outcome record: either a returned value or a raised     *)
(*              exception                                                  *)
(*   float      score is the integer 0 or 1 (Python: 0 == 0.0, 1 == 1.0);  *)
(*              accuracy is the fraction [num, den]                        *)
(***************************************************************************)
EXTENDS Integers, Sequences, FiniteSets, TLC

(***************************************************************************)
(* Bounds of the model.                                                    *)
(***************************************************************************)
\* longest response string handed to the evaluator directly
MaxRespLen == 2
\* longest reference_answers list handed to the evaluator directly
MaxRefs == 1
\* most QA items stored under the grade directory
MaxItems == 2
\* most entries in the listing of the grade directory
MaxSubjects == 2
\* evaluate_dataset is explored while len(self.results) stays within this
MaxResults == 3

(***************************************************************************)
(* Python value encodings.                                                 *)
(***************************************************************************)
None == << >>

Some(v) == << v >>

IsNone(o) == o = << >>

Get(o) == o[1]

Return(v) == [exc |-> << >>, ret |-> << v >>]

Raise(type, msg) == [exc |-> << [type |-> type, msg |-> msg] >>, ret |-> << >>]

Raised(outcome) == outcome.exc # << >>

\* the characters strings are made of
Chars == {"A", "a", "B", "b", "C", "c", "D", "d", " ", ")"}

\* the answer letters of a QAItem
Letters == {"A", "B", "C", "D"}

\* str.upper() on a one-character string
Upper(c) ==
    CASE c = "a" -> "A"
      [] c = "b" -> "B"
      [] c = "c" -> "C"
      [] c = "d" -> "D"
      [] OTHER -> c

\* all sequences over S of length at most n
SeqUpTo(S, n) == UNION {[1..k -> S] : k \in 0..n}

\* Python truthiness of a str or list: non-empty
Truthy(s) == Len(s) > 0

\* the set of the elements of a list
ListSet(l) == {l[k] : k \in 1..Len(l)}

(***************************************************************************)
(* MCQEvaluator.evaluate                                                   *)
(***************************************************************************)
\* a buggy variant of FirstUpper: compares the first character as it is
FirstUpperCaseSensitive(response) ==
    IF Len(response) = 0
    THEN Raise("IndexError", "string index out of range")
    ELSE Return(<< response[1] >>)

\* response[0].upper(): IndexError on the empty string
FirstUpper(response) ==
    IF Len(response) = 0
    THEN Raise("IndexError", "string index out of range")
    ELSE Return(<< Upper(response[1]) >>)

\* a buggy variant of lines 61-64: reference_answers only looked at when
\* reference_answer is not used
PossibleAnswersEitherOr(reference_answer, reference_answers) ==
    IF ~IsNone(reference_answer) /\ Truthy(Get(reference_answer))
    THEN << Get(reference_answer) >>
    ELSE IF ~IsNone(reference_answers) /\ Truthy(Get(reference_answers))
         THEN Get(reference_answers) ELSE << >>

\* possible_answers: reference_answer if truthy, then reference_answers if truthy
PossibleAnswers(reference_answer, reference_answers) ==
    (IF ~IsNone(reference_answer) /\ Truthy(Get(reference_answer))
     THEN << Get(reference_answer) >> ELSE << >>)
    \o
    (IF ~IsNone(reference_answers) /\ Truthy(Get(reference_answers))
     THEN Get(reference_answers) ELSE << >>)

EvaluationResult(query, response, score, feedback, passing) ==
    [query |-> query, response |-> response, score |-> score,
     feedback |-> feedback, passing |-> passing]

NoResponseFeedback == << "No response to evaluate." >>

NoReferenceFeedback == << "No reference answer(s) provided for evaluation." >>

MatchFeedback(first, is_exact_match, possible_answers) ==
    << "Response '", first, "' ",
       IF is_exact_match THEN "strictly matched" ELSE "did not strictly match",
       " one of the expected options: ", ListSet(possible_answers) >>

\* a buggy variant of the early return on a missing reference: no early return
MissingReferenceNever(reference_answer, reference_answers) == FALSE

\* the guard of the second early return of evaluate
MissingReference(reference_answer, reference_answers) ==
    IsNone(reference_answer) /\ IsNone(reference_answers)

\* the guard of the first early return of evaluate
MissingResponse(response) == IsNone(response)

evaluate(query, response, reference_answer, reference_answers) ==
    IF MissingResponse(response)
    THEN Return(EvaluationResult(query, << "No response provided." >>, 0,
                                 NoResponseFeedback, FALSE))
    ELSE IF MissingReference(reference_answer, reference_answers)
    THEN Return(EvaluationResult(query, Get(response), 0,
                                 NoReferenceFeedback, FALSE))
    ELSE LET first == FirstUpper(Get(response))
             possible_answers == PossibleAnswers(reference_answer, reference_answers)
         IN  IF Raised(first)
             THEN first
             ELSE LET is_exact_match == Get(first.ret) \in ListSet(possible_answers)
                  IN  Return(EvaluationResult(
                          query, Get(response),
                          IF is_exact_match THEN 1 ELSE 0,
                          MatchFeedback(Get(first.ret), is_exact_match, possible_answers),
                          is_exact_match))

(***************************************************************************)
(* The evaluation data directory and its loaders (src/utils/eval.py).      *)
(***************************************************************************)
\* the subject names the listing of a grade directory is drawn from
SubjectNames == << "toan", "ngu_van", "vat_ly", "hoa_hoc", "sinh_hoc", "dia_ly", "lich_su" >>

\* the grade every run of the model evaluates
Grade == "grade_10"

\* the k-th QA item stored under the grade: question text k, answers alternate
Item(k) == [question |-> k, answer |-> IF k % 2 = 1 THEN << "A" >> ELSE << "B" >>]

\* a JSON object in the k-th place that lacks the "answer" key
MalformedItem(k) == [question |-> k]

\* the shapes of one entry of the grade directory: a subject directory whose
\* dataset.json is well-formed and holds n items, or a plain file
EntryShapes ==
    [isdir : {TRUE}, file : {"ok"}, n : 0..MaxItems, bad : {0}]
    \cup [isdir : {FALSE}, file : {"ok"}, n : {0}, bad : {0}]

\* the shapes of a defective entry: a subject directory without dataset.json,
\* one whose dataset.json is not JSON, one whose bad-th item lacks a key
DefectShapes ==
    [isdir : {TRUE}, file : {"missing", "invalid"}, n : {0}, bad : {0}]
    \cup {sh \in [isdir : {TRUE}, file : {"ok"}, n : 1..MaxItems, bad : 1..MaxItems] :
              sh.bad <= sh.n}

RECURSIVE SumN(_)
SumN(shape) == IF shape = << >> THEN 0
               ELSE shape[Len(shape)].n + SumN(SubSeq(shape, 1, Len(shape) - 1))

\* entry j of the listing: its name, whether it is a directory, its dataset.json
Materialise(shape) ==
    [j \in 1..Len(shape) |->
        [name  |-> SubjectNames[j],
         isdir |-> shape[j].isdir,
         file  |-> shape[j].file,
         data  |-> [k \in 1..shape[j].n |->
                       IF k = shape[j].bad
                       THEN MalformedItem(SumN(SubSeq(shape, 1, j - 1)) + k)
                       ELSE Item(SumN(SubSeq(shape, 1, j - 1)) + k)]]]

\* the grade directories the model starts from, in os.listdir order
FileSystems ==
    {Materialise(shape) : shape \in {sh \in SeqUpTo(EntryShapes, MaxSubjects) : SumN(sh) <= MaxItems}}

\* the grade directories with at least one defective entry
DefectiveFileSystems ==
    {Materialise(shape) :
        shape \in {sh \in SeqUpTo(EntryShapes \cup DefectShapes, MaxSubjects) :
                      /\ SumN(sh) <= MaxItems
                      /\ \E j \in 1..Len(sh) : sh[j] \in DefectShapes}}

\* a buggy variant of ReadDatasetFile: an unreadable file counts as an empty dataset
ReadDatasetFileLenient(entry) ==
    IF entry.file = "ok" THEN Return(entry.data) ELSE Return(<< >>)

\* with open(dataset_path, "r") as f: return json.load(f)
ReadDatasetFile(entry) ==
    IF entry.file = "missing"
    THEN Raise("FileNotFoundError", "No such file or directory")
    ELSE IF entry.file = "invalid"
    THEN Raise("JSONDecodeError", "Expecting value")
    ELSE Return(entry.data)

\* load_eval_dataset(dataset_path, grade, subject) applied to positional
\* arguments: a call with fewer than three arguments is a TypeError; otherwise
\* the content of src/eval/data/<grade>/<subject>/dataset.json
load_eval_dataset(listing, args) ==
    IF Len(args) < 3
    THEN Raise("TypeError", "load_eval_dataset() missing 1 required positional argument: 'subject'")
    ELSE LET hits == {j \in 1..Len(listing) : listing[j].name = args[3] /\ listing[j].isdir}
         IN  IF args[2] # Grade \/ hits = {}
             THEN Raise("FileNotFoundError", "No such file or directory")
             ELSE ReadDatasetFile(listing[CHOOSE j \in hits : TRUE])

\* load_eval_dataset_by_grade(grade): the datasets of the sub-directories,
\* concatenated in listing order
RECURSIVE load_eval_dataset_by_grade(_, _)
load_eval_dataset_by_grade(listing, grade) ==
    IF listing = << >>
    THEN Return(<< >>)
    ELSE LET last == listing[Len(listing)]
             before == load_eval_dataset_by_grade(SubSeq(listing, 1, Len(listing) - 1), grade)
         IN  IF Raised(before) THEN before
             ELSE IF ~last.isdir THEN before
             ELSE LET subject_data == load_eval_dataset(listing, << "", grade, last.name >>)
                  IN  IF Raised(subject_data) THEN subject_data
                      ELSE Return(Get(before.ret) \o Get(subject_data.ret))

(***************************************************************************)
(* MultipleChoiceEvaluationPipeline.evaluate_dataset, in pieces.           *)
(***************************************************************************)
\* the names src/eval/evaluator/__init__.py defines
EvaluatorExports == {"MCQEvaluator"}

\* the name multiple_choice_eval.py imports from src.eval.evaluator
ImportedEvaluator == "ExactMatchStrictMCQEvaluator"

\* line 5: from src.eval.evaluator import ExactMatchStrictMCQEvaluator
PipelineModuleImport ==
    IF ImportedEvaluator \in EvaluatorExports THEN "loaded" ELSE "ImportError"

\* lines 50-53: the loader chosen by the truthiness of subject
LoadDataset(listing, grade, subj) ==
    IF ~IsNone(subj) /\ Truthy(Get(subj))
    THEN load_eval_dataset(listing, << grade, Get(subj) >>)
    ELSE load_eval_dataset_by_grade(listing, grade)

\* Python's seq[:stop]
SliceTo(s, stop) ==
    LET n == Len(s)
        e == IF stop < 0 THEN (IF n + stop < 0 THEN 0 ELSE n + stop)
             ELSE (IF stop > n THEN n ELSE stop)
    IN  SubSeq(s, 1, e)

\* lines 55-56: if max_questions: dataset = dataset[:max_questions]
Truncate(data, maxq) ==
    IF ~IsNone(maxq) /\ Get(maxq) # 0 THEN SliceTo(data, Get(maxq)) ELSE data

\* a buggy variant of Accuracy: divides without the guard (den 0 is the
\* ZeroDivisionError)
AccuracyUnguarded(correct, total) == [num |-> correct, den |-> total]

\* line 109: correct_count / total_count if total_count > 0 else 0.0
Accuracy(correct, total) ==
    IF total > 0 THEN [num |-> correct, den |-> total] ELSE [num |-> 0, den |-> 1]

\* lines 81-89: the result stored for an evaluated item
SuccessResult(idx, qa_pair, response, verdict) ==
    [question_id |-> idx, question |-> qa_pair.question,
     correct_answer |-> qa_pair.answer, rag_response |-> response,
     is_correct |-> verdict.passing, score |-> verdict.score,
     feedback |-> verdict.feedback]

\* a buggy variant of ErrorResult: the error counts as a correct answer
ErrorResultPassing(idx, qa_pair, e) ==
    [question_id |-> idx, question |-> qa_pair.question,
     correct_answer |-> qa_pair.answer,
     rag_response |-> Some(<< "E", "R", "R", "O", "R" >>),
     is_correct |-> TRUE, score |-> 1,
     feedback |-> << "Error: ", e.msg >>]

\* lines 97-105: the result stored for an item whose processing raised
ErrorResult(idx, qa_pair, e) ==
    [question_id |-> idx, question |-> qa_pair.question,
     correct_answer |-> qa_pair.answer,
     rag_response |-> Some(<< "E", "R", "R", "O", "R" >>),
     is_correct |-> FALSE, score |-> 0,
     feedback |-> << "Error: ", e.msg >>]

\* what rag_system.get_answer can do on one call: return a string (the empty
\* one included) or raise
BackendOutcomes ==
    {Return(Some(<< >>)), Return(Some(<< "b", ")" >>)),
     Raise("RuntimeError", "backend failed")}

(***************************************************************************)
(* State.                                                                  *)
(***************************************************************************)
VARIABLES
    fs,             \* listing of src/eval/data/<grade> with the datasets
    results,        \* self.results of the pipeline instance
    phase,          \* "IDLE" | "LOADING" | "RUNNING" | "AGGREGATING" | "DONE" | "RAISED"
    step,           \* position inside the loop body: "call" | "eval" | "store" | "except"
    subject,        \* argument of the current evaluate_dataset call
    max_questions,  \* argument of the current evaluate_dataset call
    dataset,        \* local dataset, after loading and truncation
    i,              \* loop index of enumerate(dataset)
    correct_count,  \* local correct_count
    total_count,    \* local total_count
    rag_response,   \* local rag_response of the current item
    eval_result,    \* local eval_result of the current item
    caught,         \* the exception e bound by the except clause, or the one propagating
    calls,          \* questions passed to rag_system.get_answer during the current call
    metrics,        \* metrics of the dictionary returned by the latest call
    ev_in,          \* arguments of a direct MCQEvaluator.evaluate call
    ev_out,         \* outcome of that call
    cli_in,         \* one run of run_mcq_eval.py: its arguments and what its collaborators do
    cli_out,        \* how that run ended: exit code and the stage that raised
    wrapper,        \* the MultipleChoiceWrapper instance: its attribute rag
    wr_received,    \* the prompts the wrapped backend's get_answer has received
    wr_last,        \* the latest wrapper call: its question and how it ended
    rag_mode,       \* "sequential": constructions never overlap | "concurrent"
    disk,           \* the index directories: whether each exists, and how often it was persisted
    backends,       \* per process: the backend object it constructs and uses
    fu_in,          \* one fusion retrieval: the ranked lists of the retrievers and k_final
    fu_out,         \* the fused list returned for it
    tk_in,          \* a LocalReRankRAG configuration: its top-k arguments, the BM25 directory, the corpus
    tk_out,         \* what its retrievers return for one query
    ex_in,          \* an OpenAIExtractor.extract call: its html_content and what the model answers
    ex_out,         \* how the call ended, and how often it called the model
    cr_in,          \* a subject directory: urls.txt and its URLs, an earlier dataset.json
    crawl           \* process_single_subject on it: position, locals, dataset.json

vars == << fs, results, phase, step, subject, max_questions, dataset, i,
           correct_count, total_count, rag_response, eval_result, caught, calls,
           metrics, ev_in, ev_out, cli_in, cli_out, wrapper, wr_received, wr_last,
           rag_mode, disk, backends, fu_in, fu_out, tk_in, tk_out,
           ex_in, ex_out, cr_in, crawl >>

cli_vars == << cli_in, cli_out >>
wrap_vars == << wrapper, wr_received, wr_last >>

\* the state of the components other than the pipeline and the evaluator
rag_vars == << rag_mode, disk, backends >>
fusion_vars == << fu_in, fu_out >>
topk_vars == << tk_in, tk_out >>
\* the components that build the datasets
extract_vars == << ex_in, ex_out >>
crawl_vars == << cr_in, crawl >>
data_vars == << extract_vars, crawl_vars >>
ext_vars == << cli_vars, wrap_vars, rag_vars, fusion_vars, topk_vars, data_vars >>

\* the script is not run
CliIdle ==
    /\ cli_in = None
    /\ cli_out = None

\* MultipleChoiceWrapper(rag): self.rag = rag, and no call yet
WrapInit ==
    /\ wrapper = [rag |-> "rag"]
    /\ wr_received = << >>
    /\ wr_last = None

\* no backend is constructed
RagIdle ==
    /\ rag_mode = "sequential"
    /\ disk = << >>
    /\ backends = << >>

\* no retrieval is in progress
FusionIdle ==
    /\ fu_in = None
    /\ fu_out = None

\* no configured retrieval is in progress
TopKIdle ==
    /\ tk_in = None
    /\ tk_out = None

\* no extraction is in progress
ExtractIdle ==
    /\ ex_in = None
    /\ ex_out = None

\* no subject is being processed
CrawlIdle ==
    /\ cr_in = None
    /\ crawl = None

\* every component other than `component` is constructed and not in use
IdleExcept(component) ==
    /\ IF component # "script" THEN CliIdle ELSE TRUE
    /\ IF component # "wrapper" THEN WrapInit ELSE TRUE
    /\ IF component # "rag" THEN RagIdle ELSE TRUE
    /\ IF component # "fusion" THEN FusionIdle ELSE TRUE
    /\ IF component # "topk" THEN TopKIdle ELSE TRUE
    /\ IF component # "extractor" THEN ExtractIdle ELSE TRUE
    /\ IF component # "crawl" THEN CrawlIdle ELSE TRUE

\* no other component is in use
ExtIdle == IdleExcept("none")

pipeline_vars == << fs, results, phase, step, subject, max_questions,
                    dataset, i, correct_count, total_count, rag_response, eval_result,
                    caught, calls, metrics >>

run_locals == << dataset, i, correct_count, total_count, rag_response, eval_result, calls >>

\* __init__: self.results = []; no call in progress
PipelineInit ==
    /\ results = << >>
    /\ phase = "IDLE"
    /\ step = "call"
    /\ subject = None
    /\ max_questions = None
    /\ dataset = << >>
    /\ i = 0
    /\ correct_count = 0
    /\ total_count = 0
    /\ rag_response = None
    /\ eval_result = None
    /\ caught = None
    /\ calls = << >>
    /\ metrics = None

Init ==
    /\ PipelineInit
    /\ fs \in FileSystems
    /\ ev_in = None
    /\ ev_out = None
    /\ ExtIdle

(***************************************************************************)
(* Actions of the pipeline.                                                *)
(***************************************************************************)
\* the subject and max_questions arguments callers pass
SubjectArgs == {None, Some(SubjectNames[1])}

MaxQuestionsArgs == {None} \cup {Some(m) : m \in 0..(MaxItems + 1)}

\* the number of results a call would add; calls are explored while
\* self.results stays within MaxResults
WouldAdd(subj, maxq) ==
    LET loaded == LoadDataset(fs, Grade, subj)
    IN  IF Raised(loaded) THEN 0 ELSE Len(Truncate(Get(loaded.ret), maxq))

\* a caller enters evaluate_dataset(grade, subject, max_questions)
CallEvaluateDataset ==
    /\ phase \in {"IDLE", "DONE", "RAISED"}
    /\ \E subj \in SubjectArgs, maxq \in MaxQuestionsArgs :
          /\ Len(results) + WouldAdd(subj, maxq) <= MaxResults
          /\ subject' = subj
          /\ max_questions' = maxq
    /\ phase' = "LOADING"
    /\ step' = "call"
    /\ dataset' = << >>
    /\ i' = 0
    /\ correct_count' = 0
    /\ total_count' = 0
    /\ rag_response' = None
    /\ eval_result' = None
    /\ caught' = None
    /\ calls' = << >>
    /\ metrics' = None
    /\ UNCHANGED << fs, results, ev_in, ev_out, ext_vars >>

\* lines 49-62: load, truncate, initialise the counters; a loader error propagates
LoadAndTruncate ==
    /\ phase = "LOADING"
    /\ LET loaded == LoadDataset(fs, Grade, subject)
       IN  IF Raised(loaded)
           THEN /\ phase' = "RAISED"
                /\ caught' = loaded.exc
                /\ UNCHANGED << dataset, total_count >>
           ELSE LET d == Truncate(Get(loaded.ret), max_questions)
                IN  /\ dataset' = d
                    /\ total_count' = Len(d)
                    /\ phase' = IF Len(d) > 0 THEN "RUNNING" ELSE "AGGREGATING"
                    /\ UNCHANGED caught
    /\ correct_count' = 0
    /\ i' = 0
    /\ step' = "call"
    /\ UNCHANGED << fs, results, subject, max_questions, rag_response,
                    eval_result, calls, metrics, ev_in, ev_out, ext_vars >>

\* the loop moves on to the next item, or leaves the loop
Advance ==
    /\ i' = i + 1
    /\ step' = "call"
    /\ phase' = IF i + 1 < Len(dataset) THEN "RUNNING" ELSE "AGGREGATING"
    /\ rag_response' = None
    /\ eval_result' = None
    /\ caught' = None

\* lines 66-67: qa_pair["question"], qa_pair["answer"], outside the try
HasKeys(qa_pair) == {"question", "answer"} \subseteq DOMAIN qa_pair

\* lines 66-71: read the item (a KeyError leaves evaluate_dataset), then
\* rag_response = self.rag_system.get_answer(question)
GetAnswer ==
    /\ phase = "RUNNING"
    /\ step = "call"
    /\ IF ~HasKeys(dataset[i + 1])
       THEN /\ phase' = "RAISED"
            /\ caught' = Some([type |-> "KeyError", msg |-> "'answer'"])
            /\ UNCHANGED << calls, rag_response, step >>
       ELSE /\ calls' = Append(calls, dataset[i + 1].question)
            /\ phase' = phase
            /\ \E outcome \in BackendOutcomes :
                  IF Raised(outcome)
                  THEN /\ caught' = outcome.exc
                       /\ step' = "except"
                       /\ UNCHANGED rag_response
                  ELSE /\ rag_response' = Get(outcome.ret)
                       /\ step' = "eval"
                       /\ UNCHANGED caught
    /\ UNCHANGED << fs, results, subject, max_questions, dataset,
                    i, correct_count, total_count, eval_result, metrics, ev_in, ev_out, ext_vars >>

\* lines 73-77: eval_result = self.evaluator.evaluate(query, response, reference_answer)
EvaluateResponse ==
    /\ phase = "RUNNING"
    /\ step = "eval"
    /\ LET verdict == evaluate(dataset[i + 1].question, rag_response,
                               Some(dataset[i + 1].answer), None)
       IN  IF Raised(verdict)
           THEN /\ caught' = verdict.exc
                /\ step' = "except"
                /\ UNCHANGED eval_result
           ELSE /\ eval_result' = verdict.ret
                /\ step' = "store"
                /\ UNCHANGED caught
    /\ UNCHANGED << fs, results, phase, subject, max_questions, dataset,
                    i, correct_count, total_count, rag_response, calls, metrics,
                    ev_in, ev_out, ext_vars >>

\* lines 80-93: build the result, append it, count it when passing
StoreResult ==
    /\ phase = "RUNNING"
    /\ step = "store"
    /\ results' = Append(results,
                         SuccessResult(i, dataset[i + 1], rag_response, Get(eval_result)))
    /\ correct_count' = IF Get(eval_result).passing
                        THEN correct_count + 1 ELSE correct_count
    /\ Advance
    /\ UNCHANGED << fs, subject, max_questions, dataset, total_count,
                    calls, metrics, ev_in, ev_out, ext_vars >>

\* a buggy variant of HandleError: the error is not caught and leaves evaluate_dataset
HandleErrorPropagates ==
    /\ phase = "RUNNING"
    /\ step = "except"
    /\ phase' = "RAISED"
    /\ UNCHANGED << fs, results, step, subject, max_questions, dataset, i, correct_count,
                    total_count, rag_response, eval_result, caught, calls, metrics,
                    ev_in, ev_out, ext_vars >>

\* a buggy variant of HandleError: the item is tried again instead of recorded
HandleErrorRetries ==
    /\ phase = "RUNNING"
    /\ step = "except"
    /\ step' = "call"
    /\ caught' = None
    /\ UNCHANGED << fs, results, phase, subject, max_questions, dataset, i, correct_count,
                    total_count, rag_response, eval_result, calls, metrics, ev_in, ev_out, ext_vars >>

\* a buggy variant of HandleError: the failing item is passed over without a result
HandleErrorSkips ==
    /\ phase = "RUNNING"
    /\ step = "except"
    /\ Advance
    /\ UNCHANGED << fs, results, subject, max_questions, dataset, correct_count,
                    total_count, calls, metrics, ev_in, ev_out, ext_vars >>

\* lines 95-106: except Exception as e: append the error result
HandleError ==
    /\ phase = "RUNNING"
    /\ step = "except"
    /\ results' = Append(results, ErrorResult(i, dataset[i + 1], Get(caught)))
    /\ Advance
    /\ UNCHANGED << fs, subject, max_questions, dataset, correct_count,
                    total_count, calls, metrics, ev_in, ev_out, ext_vars >>

\* lines 108-125: accuracy, metrics, return {"metrics": metrics, "results": self.results}
Aggregate ==
    /\ phase = "AGGREGATING"
    /\ LET accuracy == Accuracy(correct_count, total_count)
       IN  IF accuracy.den = 0
           THEN /\ phase' = "RAISED"
                /\ caught' = Some([type |-> "ZeroDivisionError", msg |-> "division by zero"])
                /\ UNCHANGED metrics
           ELSE /\ phase' = "DONE"
                /\ metrics' = Some([total_questions |-> total_count,
                                    correct_answers |-> correct_count,
                                    accuracy |-> accuracy,
                                    grade |-> Grade,
                                    subject |-> subject,
                                    rag_system |-> "BaseRAG"])
                /\ UNCHANGED caught
    /\ UNCHANGED << fs, results, step, subject, max_questions, dataset, i,
                    correct_count, total_count, rag_response, eval_result, calls,
                    ev_in, ev_out, ext_vars >>

\* the "results" entry of the returned dictionary is self.results itself
ReturnedResults == results

\* get_detailed_results(): return self.results
get_detailed_results == results

Next ==
    \/ CallEvaluateDataset
    \/ LoadAndTruncate
    \/ GetAnswer
    \/ EvaluateResponse
    \/ StoreResult
    \/ HandleError
    \/ Aggregate

Spec == Init /\ [][Next]_vars

\* the same pipeline over a grade directory with a defective entry
InitLoad ==
    /\ PipelineInit
    /\ fs \in DefectiveFileSystems
    /\ ev_in = None
    /\ ev_out = None
    /\ ExtIdle

SpecLoad == InitLoad /\ [][Next]_vars

(***************************************************************************)
(* Direct calls of MCQEvaluator.evaluate, one per behaviour.               *)
(***************************************************************************)
\* the reference letters as Python strings
LetterStrings == {<< l >> : l \in Letters}

\* the arguments of a direct call
EvaluateArgs ==
    [query : {1},
     response : {None} \cup {Some(r) : r \in SeqUpTo(Chars, MaxRespLen)},
     reference_answer : {None, Some(<< >>)} \cup {Some(x) : x \in LetterStrings},
     reference_answers : {None} \cup {Some(l) : l \in SeqUpTo(LetterStrings, MaxRefs)}]

InitEval ==
    /\ PipelineInit
    /\ fs = << >>
    /\ ev_in \in {Some(a) : a \in EvaluateArgs}
    /\ ev_out = None
    /\ ExtIdle

\* evaluator.evaluate(query, response, reference_answer, reference_answers)
EvaluateCall ==
    /\ ev_in # None
    /\ ev_out = None
    /\ ev_out' = Some(evaluate(Get(ev_in).query, Get(ev_in).response,
                               Get(ev_in).reference_answer, Get(ev_in).reference_answers))
    /\ UNCHANGED << pipeline_vars, ev_in, ext_vars >>

NextEval == EvaluateCall

SpecEval == InitEval /\ [][NextEval]_vars

(***************************************************************************)
(* Properties of MCQEvaluator.evaluate (checked under SpecEval).           *)
(***************************************************************************)
\* a direct call has returned or raised
EvDone == ev_in # None /\ ev_out # None

\* c is the letter x in either case
SameLetter(c, x) ==
    \/ c = x
    \/ << c, x >> \in {<< "a", "A" >>, << "b", "B" >>, << "c", "C" >>, << "d", "D" >>}

\* the call had a non-empty response and the single reference letter x
SingleReferenceCall(x) ==
    /\ EvDone
    /\ ~IsNone(Get(ev_in).response)
    /\ Len(Get(Get(ev_in).response)) > 0
    /\ Get(ev_in).reference_answer = Some(<< x >>)
    /\ IsNone(Get(ev_in).reference_answers)

C2_EmptyResponseNotPassing ==
    ( /\ EvDone
      /\ Get(ev_in).response = Some(<< >>)
      /\ Get(ev_in).reference_answer = Some(<< "A" >>)
      /\ IsNone(Get(ev_in).reference_answers) )
    => /\ ~Raised(Get(ev_out))
       /\ Get(Get(ev_out).ret).passing = FALSE
       /\ Get(Get(ev_out).ret).score = 0

\* C8: evaluate does not raise on missing inputs. With response None it
\* returns score 0, passing False and the no-response feedback whatever the
\* references are; with a non-empty response and both references None it
\* returns score 0, passing False and the no-reference feedback.
C8_MissingInputsReturn ==
    /\ (EvDone /\ IsNone(Get(ev_in).response)) =>
           /\ ~Raised(Get(ev_out))
           /\ Get(Get(ev_out).ret).score = 0
           /\ Get(Get(ev_out).ret).passing = FALSE
           /\ Get(Get(ev_out).ret).feedback = << "No response to evaluate." >>
    /\ ( /\ EvDone
         /\ ~IsNone(Get(ev_in).response)
         /\ Len(Get(Get(ev_in).response)) > 0
         /\ IsNone(Get(ev_in).reference_answer)
         /\ IsNone(Get(ev_in).reference_answers) ) =>
           /\ ~Raised(Get(ev_out))
           /\ Get(Get(ev_out).ret).score = 0
           /\ Get(Get(ev_out).ret).passing = FALSE
           /\ Get(Get(ev_out).ret).feedback
                  = << "No reference answer(s) provided for evaluation." >>

\* C8 witness: "A" has been evaluated with both references None
C8_Witness ==
    /\ EvDone
    /\ Get(ev_in).response = Some(<< "A" >>)
    /\ IsNone(Get(ev_in).reference_answer)
    /\ IsNone(Get(ev_in).reference_answers)
    /\ ~Raised(Get(ev_out))
    /\ Get(Get(ev_out).ret).passing = FALSE

(***************************************************************************)
(* Properties of evaluate_dataset (checked under Spec).                    *)
(***************************************************************************)
\* the string "ERROR"
ErrorText == << "E", "R", "R", "O", "R" >>

\* the result of the current call for the item at 0-based position k, once
\* done items of the call have been appended
RunResult(done, k) == results[Len(results) - done + k + 1]

\* the number of items of the current call already appended
Done == IF phase = "RUNNING" THEN i
        ELSE IF phase \in {"AGGREGATING", "DONE"} THEN Len(dataset) ELSE 0

\* some step inside a started run can be taken
RunCanStep == ENABLED (GetAnswer \/ EvaluateResponse \/ StoreResult \/ HandleError \/ Aggregate)

\* C3: whatever items fail, the run goes on to the items after them and ends
\* normally: a run that has loaded its n items is never aborted and can
\* always step, and when it is done it has asked the backend about all n
\* items, holds one result per item and reports total_questions = n.
C3_FailuresDoNotStopRun ==
    /\ phase = "RAISED" => (calls = << >> /\ i = 0 /\ dataset = << >>)
    /\ phase \in {"RUNNING", "AGGREGATING"} => RunCanStep
    /\ phase = "DONE" =>
           /\ Get(metrics).total_questions = Len(dataset)
           /\ Len(calls) = Len(dataset)
           /\ Len(results) >= Len(dataset)
           /\ \A k \in 0..(Len(dataset) - 1) :
                  RunResult(Len(dataset), k).question = dataset[k + 1].question

\* C3 witness: a finished run of two items whose first item failed in the
\* backend and whose second item was evaluated
C3_Witness ==
    /\ phase = "DONE"
    /\ Len(dataset) = 2
    /\ Get(metrics).total_questions = 2
    /\ RunResult(2, 0).rag_response = Some(ErrorText)
    /\ RunResult(2, 0).feedback = << "Error: ", "backend failed" >>
    /\ RunResult(2, 1).rag_response = Some(<< "b", ")" >>)

\* the run is in the except clause for the current item
InExcept == phase = "RUNNING" /\ step = "except"

\* C4: when the backend call or the evaluation of item i raised an error with
\* message m, the step that handles it appends exactly one result, for item
\* i, with response "ERROR", is_correct False, score 0.0 and feedback
\* "Error: m", and leaves the count of correct answers as it was.
C4_ErrorIsRecorded ==
    [][InExcept =>
          /\ results' = Append(results,
                 [question_id |-> i,
                  question |-> dataset[i + 1].question,
                  correct_answer |-> dataset[i + 1].answer,
                  rag_response |-> Some(ErrorText),
                  is_correct |-> FALSE,
                  score |-> 0,
                  feedback |-> << "Error: ", Get(caught).msg >>])
          /\ correct_count' = correct_count]_vars

\* C4 witness: a backend error and an evaluator error have both been recorded
C4_Witness ==
    /\ Len(results) >= 2
    /\ results[1].rag_response = Some(ErrorText)
    /\ results[1].feedback = << "Error: ", "backend failed" >>
    /\ results[2].rag_response = Some(ErrorText)
    /\ results[2].feedback = << "Error: ", "string index out of range" >>

\* C5: when a call of evaluate_dataset is done, the results it returns, and
\* those of get_detailed_results, hold exactly one result per item of that
\* call: as many as metrics.total_questions, none from earlier calls.
C5_ResultsOfLatestRunOnly ==
    phase = "DONE" =>
        /\ Len(ReturnedResults) = Get(metrics).total_questions
        /\ Len(get_detailed_results) = Get(metrics).total_questions

\* C6: accuracy is correct_answers / total_questions when total_questions > 0
\* and 0.0, without a division error, when the dataset is empty; the count
\* of correct answers always lies between 0 and the total.
C6_AccuracyDefined ==
    /\ 0 <= correct_count /\ correct_count <= total_count
    /\ phase = "RAISED" => Get(caught).type # "ZeroDivisionError"
    /\ phase = "DONE" =>
           LET m == Get(metrics)
           IN  /\ m.accuracy.den > 0
               /\ 0 <= m.correct_answers /\ m.correct_answers <= m.total_questions
               /\ m.total_questions > 0 =>
                      m.accuracy.num * m.total_questions = m.correct_answers * m.accuracy.den
               /\ m.total_questions = 0 => m.accuracy.num = 0

\* C6 witness: a run over an empty dataset is done with accuracy 0.0
C6_Witness ==
    /\ phase = "DONE"
    /\ Get(metrics).total_questions = 0
    /\ Get(metrics).accuracy.num = 0
    /\ Get(metrics).accuracy.den > 0

\* the verdict the evaluator contract gives for a response and one reference
\* letter: passing exactly when the first character is that letter
ContractPassing(response, answer) ==
    /\ ~IsNone(response)
    /\ Len(Get(response)) > 0
    /\ SameLetter(Get(response)[1], answer[1])

\* C7: for every item whose get_answer call succeeded (rag_response is
\* bound), the result appended for it carries the backend's response and the
\* evaluator's verdict on it.
C7_SuccessfulAnswerGetsVerdict ==
    [][(phase = "RUNNING" /\ ~IsNone(rag_response) /\ results' # results) =>
          LET last == results'[Len(results')]
          IN  /\ results' = Append(results, last)
              /\ last.rag_response = rag_response
              /\ last.is_correct = ContractPassing(rag_response, dataset[i + 1].answer)
              /\ last.score = IF last.is_correct THEN 1 ELSE 0]_vars

\* the questions of the first k items of the dataset
Questions(k) == [j \in 1..k |-> dataset[j].question]

\* C9, state part: the backend has been asked exactly the questions of the
\* items up to the current one, once each and in order; the results of the
\* call so far are those of the items before the current one, with
\* question_id equal to the item's position.
C9_InOrder ==
    /\ phase = "LOADING" => calls = << >>
    /\ phase = "RUNNING" =>
           /\ i < Len(dataset)
           /\ calls = Questions(IF step = "call" THEN i ELSE i + 1)
    /\ phase \in {"AGGREGATING", "DONE"} => (i = Len(dataset) /\ calls = Questions(i))
    /\ Len(results) >= Done
    /\ \A k \in 0..(Done - 1) :
           /\ RunResult(Done, k).question_id = k
           /\ RunResult(Done, k).question = dataset[k + 1].question

\* C9, step part: the phases follow LOADING, RUNNING(0..n-1), AGGREGATING,
\* DONE; the index moves by one, and only with the append of the item's result.
C9_PhaseOrder ==
    /\ phase' # phase =>
           << phase, phase' >> \in
               {<< "IDLE", "LOADING" >>, << "DONE", "LOADING" >>, << "RAISED", "LOADING" >>,
                << "LOADING", "RUNNING" >>, << "LOADING", "AGGREGATING" >>,
                << "LOADING", "RAISED" >>,
                << "RUNNING", "AGGREGATING" >>, << "AGGREGATING", "DONE" >>}
    /\ (phase = "LOADING" /\ phase' = "RUNNING") => i' = 0
    /\ (phase = "RUNNING" /\ i' # i) =>
           /\ i' = i + 1
           /\ Len(results') = Len(results) + 1
           /\ calls' = calls
    /\ (phase = "RUNNING" /\ calls' # calls) => (step = "call" /\ i' = i /\ results' = results)
    /\ (phase = "RUNNING" /\ phase' = "AGGREGATING") => i' = Len(dataset)

\* C9: within one call of evaluate_dataset the backend is asked the questions
\* of the (truncated) dataset in positional order, once per item and without
\* retry; an item's backend call, evaluation and append complete before the
\* next item's backend call; question_id is the positional index; the call
\* passes through LOADING, RUNNING(0..n-1), AGGREGATING, DONE in that order.
C9_StrictlySequential == []C9_InOrder /\ [][C9_PhaseOrder]_vars

\* C9 witness: the second item's backend call has been made, after the first
\* item's result was appended
C9_Witness ==
    /\ phase = "RUNNING"
    /\ i = 1
    /\ step = "eval"
    /\ Len(calls) = 2
    /\ RunResult(1, 0).question_id = 0

\* the number of items the loaders return for the current call
LoadedLen == Len(Get(LoadDataset(fs, Grade, subject).ret))

Min(a, b) == IF a < b THEN a ELSE b

\* C10: with a cap m >= 0 the run processes exactly min(m, n) of the n loaded
\* items (as many backend calls, total_questions = min(m, n)), and all n
\* when max_questions is omitted.
C10_CapBoundsTheRun ==
    phase = "DONE" =>
        LET expected == IF IsNone(max_questions) THEN LoadedLen
                        ELSE Min(Get(max_questions), LoadedLen)
        IN  /\ Len(calls) = expected
            /\ Get(metrics).total_questions = expected

(***************************************************************************)
(* Properties of dataset loading (Spec and SpecLoad).                      *)
(***************************************************************************)
\* the current call has left the loading phase
Loaded == phase \in {"RUNNING", "AGGREGATING", "DONE", "RAISED"}

\* the datasets of the sub-directories of a listing, one after the other
RECURSIVE ConcatSubjects(_)
ConcatSubjects(listing) ==
    IF listing = << >> THEN << >>
    ELSE (IF listing[1].isdir THEN listing[1].data ELSE << >>)
         \o ConcatSubjects(SubSeq(listing, 2, Len(listing)))

\* the entries of the grade directory that are the directory of subject s
SubjectDirs(s) == {j \in 1..Len(fs) : fs[j].name = s /\ fs[j].isdir}

\* C11: once loading is over, the dataset is (up to the max_questions cap)
\* the named subject's dataset when a subject is given and its well-formed
\* file exists, and the concatenation of all subject directories' datasets
\* in listing order when no subject is given; loading does not fail then.
C11_DatasetSelection ==
    Loaded =>
        IF IsNone(subject)
        THEN (\A j \in 1..Len(fs) : fs[j].file = "ok") =>
                 /\ dataset = Truncate(ConcatSubjects(fs), max_questions)
                 /\ (phase = "RAISED" => i > 0)
        ELSE \A j \in SubjectDirs(Get(subject)) :
                 fs[j].file = "ok" =>
                     /\ phase # "RAISED" \/ i > 0
                     /\ dataset = Truncate(fs[j].data, max_questions)

\* a dataset file the current call has to read is missing or is not JSON
UnreadableFile ==
    IF IsNone(subject)
    THEN \E j \in 1..Len(fs) : fs[j].isdir /\ fs[j].file # "ok"
    ELSE \E j \in SubjectDirs(Get(subject)) : fs[j].file # "ok"

\* the current item of the loop is a JSON object without the expected keys
AtMalformedItem == phase = "RUNNING" /\ step = "call" /\ ~HasKeys(dataset[i + 1])

\* C12 as stated: over a grade directory with a missing or malformed dataset
\* file, a call of evaluate_dataset makes no backend call and returns no
\* metrics: it ends by propagating the error.
C12_NoItemBeforeLoadError ==
    /\ calls = << >>
    /\ metrics = None
    /\ phase # "DONE"

\* C12, amended: a missing or non-JSON dataset file makes the loading step
\* raise, with no backend call made, no result appended and no metrics; an
\* item without the expected keys makes the call raise when the loop reaches
\* it, with no result appended for it and no metrics, after the items before
\* it were processed; a call that raised has no metrics.
C12_LoadErrorsPropagate ==
    /\ [](phase = "RAISED" => (metrics = None /\ caught # None))
    /\ [][(phase = "LOADING" /\ UnreadableFile) =>
             /\ phase' = "RAISED"
             /\ calls' = << >>
             /\ results' = results
             /\ metrics' = None]_vars
    /\ [][AtMalformedItem =>
             /\ phase' = "RAISED"
             /\ Get(caught').type = "KeyError"
             /\ calls' = calls
             /\ Len(calls) = i
             /\ results' = results
             /\ metrics' = None]_vars

\* C12 witness: the call raised KeyError at its second item, after the
\* backend call and the result of the first
C12_Witness ==
    /\ phase = "RAISED"
    /\ Get(caught).type = "KeyError"
    /\ Len(calls) = 1
    /\ Len(results) >= 1
    /\ metrics = None

(***************************************************************************)
(* The evaluation script src/eval/script/run_mcq_eval.py.                  *)
(***************************************************************************)
\* one run of the script: the parsed arguments, and what each collaborator
\* main() calls does when it is reached
ScriptRuns ==
    [rag_type : {"baseline", "subquestion"},
     output_file : {None, Some("results.json")},
     construct_raises : BOOLEAN,
     evaluate_raises : BOOLEAN,
     item_errors : {0, 1},
     summary_raises : BOOLEAN,
     save_raises : BOOLEAN]

\* the exit status of the process and the stage whose exception ended it.
\* Line 12 imports the pipeline module before main() is entered: an
\* ImportError there is uncaught (exit status 1). Inside main() any Exception
\* of lines 104-135 reaches the handler of lines 137-139: sys.exit(1).
\* Falling off the end of main() is exit status 0.
ScriptOutcome(run) ==
    IF PipelineModuleImport # "loaded"
    THEN [code |-> 1, raised |-> "import"]
    ELSE IF run.construct_raises
    THEN [code |-> 1, raised |-> "construct"]
    ELSE IF run.evaluate_raises
    THEN [code |-> 1, raised |-> "evaluate_dataset"]
    ELSE IF run.summary_raises
    THEN [code |-> 1, raised |-> "print_summary"]
    ELSE IF ~IsNone(run.output_file) /\ run.save_raises
    THEN [code |-> 1, raised |-> "save"]
    ELSE [code |-> 0, raised |-> "none"]

InitScript ==
    /\ PipelineInit
    /\ fs = << >>
    /\ ev_in = None
    /\ ev_out = None
    /\ IdleExcept("script")
    /\ cli_in \in {Some(run) : run \in ScriptRuns}
    /\ cli_out = None

\* python run_mcq_eval.py ...
RunScript ==
    /\ cli_in # None
    /\ cli_out = None
    /\ cli_out' = Some(ScriptOutcome(Get(cli_in)))
    /\ UNCHANGED << pipeline_vars, ev_in, ev_out, cli_in, wrap_vars, rag_vars, fusion_vars, topk_vars, data_vars >>

NextScript == RunScript

SpecScript == InitScript /\ [][NextScript]_vars

\* C13: the script exits with code 1 exactly when backend construction,
\* evaluate_dataset, summary printing or report saving raised, and with code
\* 0 otherwise, however many items failed inside evaluate_dataset.
C13_ExitCode ==
    cli_out # None =>
        /\ Get(cli_out).code \in {0, 1}
        /\ Get(cli_out).code = 1 <=>
               Get(cli_out).raised \in {"construct", "evaluate_dataset", "print_summary", "save"}
        /\ ( /\ ~Get(cli_in).construct_raises
             /\ ~Get(cli_in).evaluate_raises
             /\ ~Get(cli_in).summary_raises
             /\ ~Get(cli_in).save_raises ) => Get(cli_out).code = 0

(***************************************************************************)
(* MultipleChoiceWrapper, src/eval/eval_wrapper/multiple_choice_wrapper.py *)
(***************************************************************************)
MaxQuestionLen == 2
MaxWrapperCalls == 2

\* the question texts a caller passes
WrapperQuestions == SeqUpTo({"2", "?"}, MaxQuestionLen)

\* the f-string of lines 12-16, cut at the replacement field {question};
\* text outside the field is kept in whole-line pieces, its Vietnamese
\* diacritics written as plain letters
TemplateHead ==
    << "\n",
       "            Hay chi tra loi cau hoi Multiple choice sau bang mot trong cac dap an A, B, C, D.   \n",
       "            Cau hoi: " >>
TemplateTail ==
    << "\n",
       "            Dap an:\n",
       "        " >>

\* the template without its replacement field
PromptWithoutQuestion(question) == TemplateHead \o TemplateTail

\* lines 12-16: {question} formats a str as itself
Prompt(question) == TemplateHead \o question \o TemplateTail

\* get_answer, lines 8-17: build the prompt, hand it to self.rag.get_answer
\* and return what that returns; an exception of the backend is not caught
WrapperGetAnswer ==
    /\ Len(wr_received) < MaxWrapperCalls
    /\ \E question \in WrapperQuestions, outcome \in BackendOutcomes :
          /\ wr_received' = Append(wr_received, Prompt(question))
          /\ wr_last' = Some([question |-> question, backend |-> outcome, out |-> outcome])
    /\ UNCHANGED << pipeline_vars, ev_in, ev_out, cli_vars, wrapper, rag_vars, fusion_vars, topk_vars, data_vars >>

InitWrapper ==
    /\ PipelineInit
    /\ fs = << >>
    /\ ev_in = None
    /\ ev_out = None
    /\ IdleExcept("wrapper")
    /\ WrapInit

NextWrapper == WrapperGetAnswer

SpecWrapper == InitWrapper /\ [][NextWrapper]_vars

\* s occurs in t at offset k
OccursAt(s, t, k) ==
    /\ k + Len(s) <= Len(t)
    /\ SubSeq(t, k + 1, k + Len(s)) = s

\* C14: one wrapper call is one backend call, whose prompt is the instruction
\* template with the question text unchanged in its field; the caller gets
\* the backend's value or exception as it is; the wrapper keeps its backend
\* and nothing else of the backend or the wrapper changes.
C14_WrapperCallStep ==
    (wr_last' # wr_last \/ wr_received' # wr_received) =>
        /\ Len(wr_received') = Len(wr_received) + 1
        /\ SubSeq(wr_received', 1, Len(wr_received)) = wr_received
        /\ wr_last' # None
        /\ LET call == Get(wr_last')
               prompt == wr_received'[Len(wr_received')]
           IN  /\ OccursAt(TemplateHead, prompt, 0)
               /\ OccursAt(call.question, prompt, Len(TemplateHead))
               /\ OccursAt(TemplateTail, prompt, Len(TemplateHead) + Len(call.question))
               /\ Len(prompt) = Len(TemplateHead) + Len(call.question) + Len(TemplateTail)
               /\ call.out = call.backend
        /\ wrapper' = wrapper

C14_WrapperIsTransparent == [][C14_WrapperCallStep]_vars

C14_Witness ==
    /\ Len(wr_received) = 2
    /\ wr_last # None
    /\ Get(wr_last).question = << "2", "?" >>
    /\ Raised(Get(wr_last).out)

(***************************************************************************)
(* The backends of src/rag/base_rag.py: construction and the index         *)
(* directories.                                                            *)
(***************************************************************************)
MaxProcs == 2
MaxAnswers == 1

Procs == 1..MaxProcs

Variants == {"LocalBaselineRAG", "LocalSubQuestionRAG", "LocalReRankRAG"}

\* the default directories of lines 52 and 111-113
StorageDir == "src/.index_storage"
Bm25Dir == "src/.bm25_index_storage"
LocalRAGDataDir == "../data"
ReRankDataDir == "src/data"
IndexDirs == {StorageDir, Bm25Dir}

\* the instance attributes: a function from the assigned names to their values
NoAttrs == [a \in {} |-> ""]
Has(attrs, name) == name \in DOMAIN attrs
Assign(attrs, name, value) ==
    [a \in DOMAIN attrs \cup {name} |-> IF a = name THEN value ELSE attrs[a]]

\* what a subclass __init__ assigns before it calls super().__init__():
\* LocalReRankRAG lines 121-129; the other two define no __init__ of their own
\* and LocalRAG.__init__ (line 54) calls super().__init__() first
AssignedBeforeSuper(variant) ==
    IF variant = "LocalReRankRAG"
    THEN Assign(Assign(Assign(NoAttrs, "embed_dir", StorageDir),
                       "data_dir", ReRankDataDir),
                "bm25_dir", Bm25Dir)
    ELSE NoAttrs

\* the directory attributes get_query_engine checks, in order: line 69 for
\* LocalRAG.get_query_engine, lines 138 and 154 for LocalReRankRAG;
\* LocalSubQuestionRAG.get_query_engine (lines 88-102) checks none
EnsureAttrs(variant) ==
    CASE variant = "LocalBaselineRAG" -> << "storage_dir" >>
      [] variant = "LocalReRankRAG" -> << "embed_dir", "bm25_dir" >>
      [] OTHER -> << >>

\* the index directories a backend of this variant is constructed against
VariantDirs(variant) ==
    IF variant = "LocalReRankRAG" THEN {StorageDir, Bm25Dir} ELSE {StorageDir}

NewBackend ==
    [variant |-> "none", pc |-> "new", attrs |-> NoAttrs, k |-> 0,
     found |-> {}, loaded |-> {}, wrote |-> {}, answers |-> 0, error |-> None]

\* the exception leaves the constructor (or get_answer)
Raises(b, type, msg) ==
    [b EXCEPT !.pc = "raised", !.error = Some([type |-> type, msg |-> msg])]

UnderConstruction(b) == b.pc \notin {"new", "ready", "raised"}

\* in sequential mode a process acts only while no other is inside a constructor
MayStep(p) ==
    \/ rag_mode = "concurrent"
    \/ \A q \in Procs \ {p} : ~UnderConstruction(backends[q])

\* os.path.exists answering "absent" whatever is on disk
IndexExistsNever(d) == FALSE

\* os.path.exists(d), lines 69, 138, 154
IndexExists(d) == disk[d].exists

\* the next step after directory k of the variant has been loaded or built
AfterEnsure(b) ==
    IF b.k < Len(EnsureAttrs(b.variant))
    THEN [b EXCEPT !.k = b.k + 1, !.pc = "check"]
    ELSE [b EXCEPT !.pc = "finish"]

\* Variant(): the subclass __init__ up to super().__init__(), then
\* BaseRAG.__init__ line 25: self.llm = self.get_llm()
Construct(p) ==
    /\ MayStep(p)
    /\ backends[p].pc = "new"
    /\ \E variant \in Variants :
          backends' = [backends EXCEPT ![p] =
              [@ EXCEPT !.variant = variant,
                        !.attrs = Assign(AssignedBeforeSuper(variant), "llm", "OpenAI"),
                        !.found = {d \in VariantDirs(variant) : IndexExists(d)},
                        !.pc = "engine"]]
    /\ UNCHANGED << pipeline_vars, ev_in, ev_out, cli_vars, wrap_vars, fusion_vars, topk_vars, data_vars, rag_mode, disk >>

\* BaseRAG.__init__ line 26 enters self.get_query_engine().
\* LocalSubQuestionRAG's (lines 93-102) reads self.query_engine for its tool,
\* assigns self.query_engine and returns nothing; the others go on to their
\* first directory
EnterGetQueryEngine(p) ==
    /\ MayStep(p)
    /\ backends[p].pc = "engine"
    /\ LET b == backends[p] IN
       backends' = [backends EXCEPT ![p] =
           IF b.variant = "LocalSubQuestionRAG"
           THEN IF ~Has(b.attrs, "query_engine")
                THEN Raises(b, "AttributeError", "query_engine")
                ELSE [b EXCEPT !.attrs = Assign(b.attrs, "query_engine", "None"),
                               !.pc = "finish"]
           ELSE [b EXCEPT !.k = 1, !.pc = "check"]]
    /\ UNCHANGED << pipeline_vars, ev_in, ev_out, cli_vars, wrap_vars, fusion_vars, topk_vars, data_vars, rag_mode, disk >>

\* if os.path.exists(self.<dir>): lines 69, 138, 154
CheckExists(p) ==
    /\ MayStep(p)
    /\ backends[p].pc = "check"
    /\ LET b == backends[p]
           attr == EnsureAttrs(b.variant)[b.k]
       IN  backends' = [backends EXCEPT ![p] =
               IF ~Has(b.attrs, attr)
               THEN Raises(b, "AttributeError", attr)
               ELSE IF IndexExists(b.attrs[attr])
                    THEN [b EXCEPT !.pc = "load"]
                    ELSE [b EXCEPT !.pc = "build"]]
    /\ UNCHANGED << pipeline_vars, ev_in, ev_out, cli_vars, wrap_vars, fusion_vars, topk_vars, data_vars, rag_mode, disk >>

\* load_index_from_storage / BM25Retriever.from_persist_dir: lines 70-72,
\* 139-141, 155-156
LoadIndex(p) ==
    /\ MayStep(p)
    /\ backends[p].pc = "load"
    /\ LET b == backends[p]
           d == b.attrs[EnsureAttrs(b.variant)[b.k]]
       IN  backends' = [backends EXCEPT ![p] =
               AfterEnsure([b EXCEPT !.loaded = b.loaded \cup {d}])]
    /\ UNCHANGED << pipeline_vars, ev_in, ev_out, cli_vars, wrap_vars, fusion_vars, topk_vars, data_vars, rag_mode, disk >>

\* read self.data_dir, build the index and persist it: lines 74-77, 143-146,
\* 158-167
BuildAndPersist(p) ==
    /\ MayStep(p)
    /\ backends[p].pc = "build"
    /\ LET b == backends[p]
           d == b.attrs[EnsureAttrs(b.variant)[b.k]]
       IN  IF ~Has(b.attrs, "data_dir")
           THEN /\ backends' = [backends EXCEPT ![p] = Raises(b, "AttributeError", "data_dir")]
                /\ disk' = disk
           ELSE /\ backends' = [backends EXCEPT ![p] =
                       AfterEnsure([b EXCEPT !.wrote = b.wrote \cup {d}])]
                /\ disk' = [disk EXCEPT ![d] = [exists |-> TRUE, writes |-> disk[d].writes + 1]]
    /\ UNCHANGED << pipeline_vars, ev_in, ev_out, cli_vars, wrap_vars, fusion_vars, topk_vars, data_vars, rag_mode >>

\* get_query_engine returns; line 26 assigns self.query_engine; then
\* LocalRAG.__init__ lines 55-56 assign storage_dir and data_dir from its own
\* parameters
FinishConstruction(p) ==
    /\ MayStep(p)
    /\ backends[p].pc = "finish"
    /\ LET b == backends[p]
           engine == IF b.variant = "LocalSubQuestionRAG" THEN "None" ELSE "engine"
       IN  backends' = [backends EXCEPT ![p] =
               [b EXCEPT !.attrs = Assign(Assign(Assign(b.attrs, "query_engine", engine),
                                                 "storage_dir", StorageDir),
                                          "data_dir", LocalRAGDataDir),
                         !.pc = "ready"]]
    /\ UNCHANGED << pipeline_vars, ev_in, ev_out, cli_vars, wrap_vars, fusion_vars, topk_vars, data_vars, rag_mode, disk >>

\* get_answer, lines 83-84, 104-105, 201-202:
\* self.query_engine.query(question).response
BackendGetAnswer(p) ==
    /\ MayStep(p)
    /\ backends[p].pc = "ready"
    /\ backends[p].answers < MaxAnswers
    /\ LET b == backends[p] IN
       backends' = [backends EXCEPT ![p] =
           IF b.attrs["query_engine"] = "None"
           THEN Raises(b, "AttributeError", "query")
           ELSE [b EXCEPT !.answers = b.answers + 1]]
    /\ UNCHANGED << pipeline_vars, ev_in, ev_out, cli_vars, wrap_vars, fusion_vars, topk_vars, data_vars, rag_mode, disk >>

InitRag ==
    /\ PipelineInit
    /\ fs = << >>
    /\ ev_in = None
    /\ ev_out = None
    /\ IdleExcept("rag")
    /\ rag_mode \in {"sequential", "concurrent"}
    /\ disk \in [IndexDirs -> {[exists |-> TRUE, writes |-> 0], [exists |-> FALSE, writes |-> 0]}]
    /\ backends = [p \in Procs |-> NewBackend]

NextRag ==
    \E p \in Procs :
        \/ Construct(p)
        \/ EnterGetQueryEngine(p)
        \/ CheckExists(p)
        \/ LoadIndex(p)
        \/ BuildAndPersist(p)
        \/ FinishConstruction(p)
        \/ BackendGetAnswer(p)

SpecRag == InitRag /\ [][NextRag]_vars

\* C15: every variant constructs: no attribute is read before it is
\* assigned, and a constructed backend holds a usable query engine.
C15_BackendsConstructible ==
    \A p \in DOMAIN backends :
        /\ backends[p].error = None
        /\ backends[p].pc = "ready" =>
              /\ Has(backends[p].attrs, "query_engine")
              /\ backends[p].attrs["query_engine"] = "engine"

\* C16: with constructions one after the other, an index directory is
\* persisted at most once, and a construction against a directory that
\* already exists loads it and does not write it.
C16_EnsureIsIdempotent ==
    rag_mode = "sequential" =>
        /\ \A d \in DOMAIN disk : disk[d].writes <= 1
        /\ \A p \in DOMAIN backends :
              backends[p].pc \in {"ready", "raised"} =>
                 \A d \in VariantDirs(backends[p].variant) \cap backends[p].found :
                     /\ d \in backends[p].loaded
                     /\ d \notin backends[p].wrote

\* C17: only concurrent constructions can persist the same directory twice;
\* every writer is a construction that saw the directory absent, and the
\* write count is the number of constructions that wrote.
C17_DoubleWriteNeedsConcurrency ==
    /\ \A d \in DOMAIN disk :
          /\ disk[d].writes = Cardinality({p \in DOMAIN backends : d \in backends[p].wrote})
          /\ disk[d].writes >= 2 => rag_mode = "concurrent"
    /\ \A p \in DOMAIN backends : backends[p].wrote \cap backends[p].found = {}

\* two processes both passed the existence check of the same absent
\* directory and both persisted it
C17_Witness ==
    /\ rag_mode = "concurrent"
    /\ \E d \in DOMAIN disk :
          /\ disk[d].writes = 2
          /\ \E p, q \in DOMAIN backends :
                /\ p # q
                /\ d \in backends[p].wrote
                /\ d \in backends[q].wrote

(***************************************************************************)
(* The fusion retriever behind LocalReRankRAG: reciprocal-rank fusion of   *)
(* the rankings of the lexical and the dense retriever over the expanded   *)
(* queries.                                                                *)
(***************************************************************************)
MaxPassages == 2

\* passage ids
Passages == 1..MaxPassages

\* the two retrievers get_query_engine builds, lines 176-177
Retrievers == {"lexical", "dense"}

\* the query as given and one generated from it
ExpandedQueries == << "original", "generated" >>

\* only the lexical retriever is handed to the fusion retriever
OnlyLexicalRetriever == << "lexical" >>

\* retrievers=[bm25_retriever, vector_retriever], line 191
FusionRetrievers == << "lexical", "dense" >>

\* the default mode of QueryFusionRetriever
FusionModeDefault == "simple"

\* mode="reciprocal_rerank", line 195
FusionMode == "reciprocal_rerank"

\* similarity_top_k=self.rerank_similarity_top_k (line 196), default 5 (line
\* 116); 1 is a caller's smaller choice
KFinals == {1, 5}

\* the rank-offset constant C
RankOffset == 60

\* one retriever's ranking for one query: passage ids, best first, none twice
RankedLists ==
    {l \in SeqUpTo(Passages, MaxPassages) :
        \A j, k \in 1..Len(l) : l[j] = l[k] => j = k}

\* the (retriever, expanded-query) lists in the order they are produced:
\* for every expanded query, each retriever in turn
AllLists(rankings) ==
    [n \in 1..(Len(ExpandedQueries) * Len(FusionRetrievers)) |->
        rankings[ExpandedQueries[((n - 1) \div Len(FusionRetrievers)) + 1]]
                [FusionRetrievers[((n - 1) % Len(FusionRetrievers)) + 1]]]

Contains(l, id) == \E r \in 1..Len(l) : l[r] = id

RankIn(l, id) == CHOOSE r \in 1..Len(l) : l[r] = id

\* the common denominator of the contributions 1/(rank + C), rank <= n
RECURSIVE ScoreScale(_)
ScoreScale(n) == IF n = 0 THEN 1 ELSE (n + RankOffset) * ScoreScale(n - 1)

\* 1/(rank + C), as a multiple of 1/ScoreScale(MaxPassages)
Contribution(rank) == ScoreScale(MaxPassages) \div (rank + RankOffset)

\* the summed contributions of id over the lists
RECURSIVE FusedScore(_, _)
FusedScore(lists, id) ==
    IF lists = << >> THEN 0
    ELSE (IF Contains(lists[1], id) THEN Contribution(RankIn(lists[1], id)) ELSE 0)
         + FusedScore(Tail(lists), id)

\* the best rank id has in any one list
BestRank(lists, id) ==
    LET ranks == {RankIn(lists[n], id) : n \in {m \in 1..Len(lists) : Contains(lists[m], id)}}
    IN  CHOOSE r \in ranks : \A o \in ranks : r <= o

\* the ids of the lists in the order they are first met
RECURSIVE FirstSeen(_, _)
FirstSeen(flat, seen) ==
    IF flat = << >> THEN seen
    ELSE FirstSeen(Tail(flat),
                   IF Contains(seen, Head(flat)) THEN seen ELSE Append(seen, Head(flat)))

RECURSIVE Flatten(_)
Flatten(lists) == IF lists = << >> THEN << >> ELSE lists[1] \o Flatten(Tail(lists))

\* a goes before b: higher summed score; on a tie the better best rank; on a
\* tie again the smaller id
GoesBefore(lists, a, b) ==
    \/ FusedScore(lists, a) > FusedScore(lists, b)
    \/ /\ FusedScore(lists, a) = FusedScore(lists, b)
       /\ \/ BestRank(lists, a) < BestRank(lists, b)
          \/ BestRank(lists, a) = BestRank(lists, b) /\ a < b

\* insert id into a list that is in order
RECURSIVE InsertInOrder(_, _, _)
InsertInOrder(lists, sorted, id) ==
    IF sorted = << >> THEN << id >>
    ELSE IF GoesBefore(lists, id, Head(sorted))
         THEN << id >> \o sorted
         ELSE << Head(sorted) >> \o InsertInOrder(lists, Tail(sorted), id)

RECURSIVE SortFused(_, _)
SortFused(lists, ids) ==
    IF ids = << >> THEN << >>
    ELSE InsertInOrder(lists, SortFused(lists, Tail(ids)), Head(ids))

\* the retrieval: sum, sort, truncate to k_final; any other mode than
\* reciprocal rank fusion leaves the ids in the order they were first met
Fuse(rankings, k_final) ==
    LET lists == AllLists(rankings)
        ids == FirstSeen(Flatten(lists), << >>)
        ordered == IF FusionMode = "reciprocal_rerank" THEN SortFused(lists, ids) ELSE ids
        kept == SubSeq(ordered, 1, Min(k_final, Len(ordered)))
    IN  [j \in 1..Len(kept) |-> [id |-> kept[j], score |-> FusedScore(lists, kept[j])]]

InitFusion ==
    /\ PipelineInit
    /\ fs = << >>
    /\ ev_in = None
    /\ ev_out = None
    /\ IdleExcept("fusion")
    /\ fu_in \in {Some(r) : r \in [rankings : [{ExpandedQueries[n] : n \in 1..Len(ExpandedQueries)}
                                               -> [Retrievers -> RankedLists]],
                                  k_final : KFinals]}
    /\ fu_out = None

\* hybrid_retriever.retrieve(query)
Retrieve ==
    /\ fu_in # None
    /\ fu_out = None
    /\ fu_out' = Some(Fuse(Get(fu_in).rankings, Get(fu_in).k_final))
    /\ UNCHANGED << pipeline_vars, ev_in, ev_out, cli_vars, wrap_vars, rag_vars, topk_vars, data_vars, fu_in >>

NextFusion == Retrieve

SpecFusion == InitFusion /\ [][NextFusion]_vars

\* the ranked lists handed to the retrieval
InputLists ==
    {Get(fu_in).rankings[q][r] : q \in DOMAIN Get(fu_in).rankings, r \in Retrievers}

\* the ids that appear in any of them
InputIds == {id \in Passages : \E l \in InputLists : Contains(l, id)}

\* the positions id has in the fused output
OutputPositions(id) == {j \in 1..Len(Get(fu_out)) : Get(fu_out)[j].id = id}

\* C18 as stated: every id of any input ranking is in the fused output
\* exactly once.
C18_EveryIdExactlyOnce ==
    fu_out # None =>
        \A id \in InputIds : Cardinality(OutputPositions(id)) = 1

\* C18: no id is in the fused output twice, the output holds ids of the
\* input rankings only, and it holds the min(k_final, number of ids) best of
\* them: all of them when there are at most k_final.
C18_IdsOnceUpToKFinal ==
    fu_out # None =>
        /\ \A id \in Passages : Cardinality(OutputPositions(id)) <= 1
        /\ \A j \in 1..Len(Get(fu_out)) : Get(fu_out)[j].id \in InputIds
        /\ Len(Get(fu_out)) = Min(Get(fu_in).k_final, Cardinality(InputIds))
        /\ \A id \in InputIds :
              OutputPositions(id) = {} =>
                 \A j \in 1..Len(Get(fu_out)) : Get(fu_out)[j].score >= FusedScore(AllLists(Get(fu_in).rankings), id)

C18_Witness ==
    /\ fu_out # None
    /\ Cardinality(InputIds) = 2
    /\ Get(fu_in).k_final = 1
    /\ Len(Get(fu_out)) = 1
    /\ Get(fu_in).rankings["original"]["lexical"] # Get(fu_in).rankings["original"]["dense"]

\* id is ranked first by both retrievers for one and the same query
TopInBoth(id) ==
    \E q \in DOMAIN Get(fu_in).rankings :
        \A r \in Retrievers :
            /\ Get(fu_in).rankings[q][r] # << >>
            /\ Get(fu_in).rankings[q][r][1] = id

\* the (query, retriever) lists that hold id, and those that rank it first
ListsWith(id) ==
    {qr \in (DOMAIN Get(fu_in).rankings) \X Retrievers :
        Contains(Get(fu_in).rankings[qr[1]][qr[2]], id)}
ListsTopping(id) ==
    {qr \in ListsWith(id) : Get(fu_in).rankings[qr[1]][qr[2]][1] = id}

\* id is ranked first by one retriever for some query, and for no query by both
TopInOnlyOne(id) == ListsTopping(id) # {} /\ ~TopInBoth(id)

\* a is in the fused output whenever b is, and no later than b
NoLater(a, b) ==
    OutputPositions(b) # {} =>
        /\ OutputPositions(a) # {}
        /\ \A ja \in OutputPositions(a), jb \in OutputPositions(b) : ja <= jb

\* C19 as stated: a passage ranked first by both retrievers for the same
\* query scores at least as high as any passage ranked first by only one of
\* them, and is ordered no later.
C19_TopInBothBeatsTopInOne ==
    fu_out # None =>
        \A p, r \in InputIds :
            (TopInBoth(p) /\ TopInOnlyOne(r)) =>
                /\ FusedScore(AllLists(Get(fu_in).rankings), p) >= FusedScore(AllLists(Get(fu_in).rankings), r)
                /\ NoLater(p, r)

\* C19: a passage ranked first by both retrievers for the same query scores
\* higher than any passage that is in at most two of the lists and first in
\* at most one of them, and is ordered before it.
C19_TopInBothBeatsSparse ==
    fu_out # None =>
        \A p, r \in InputIds :
            ( /\ TopInBoth(p)
              /\ Cardinality(ListsWith(r)) <= 2
              /\ Cardinality(ListsTopping(r)) <= 1 ) =>
                /\ NoLater(p, r)
                /\ p # r
                /\ \A jp \in OutputPositions(p) :
                      /\ \A jr \in OutputPositions(r) :
                            /\ jp < jr
                            /\ Get(fu_out)[jp].score > Get(fu_out)[jr].score
                      /\ Get(fu_out)[jp].score >= 2 * Contribution(1)

C19_Witness ==
    /\ fu_out # None
    /\ Len(Get(fu_out)) = 2
    /\ TopInBoth(Get(fu_out)[1].id)
    /\ TopInOnlyOne(Get(fu_out)[2].id)
    /\ Cardinality(ListsWith(Get(fu_out)[2].id)) = 2

\* the best rank id has in any input list
BestInputRank(id) ==
    LET ranks == {RankIn(Get(fu_in).rankings[qr[1]][qr[2]], id) : qr \in ListsWith(id)}
    IN  CHOOSE r \in ranks : \A o \in ranks : r <= o

MaxTopK == 2

\* a construction: the three top-k arguments (lines 114-116), whether the
\* BM25 directory exists and the top-k persisted in it, and how many passages
\* of the corpus match a query
TopKRuns ==
    [embed_similarity_top_k : 1..MaxTopK,
     bm25_similarity_top_k : 1..MaxTopK,
     rerank_similarity_top_k : 1..MaxTopK,
     bm25_dir_exists : BOOLEAN,
     persisted_top_k : 1..MaxTopK,
     matches : 0..MaxPassages]

\* index.as_retriever(similarity_top_k=self.embed_similarity_top_k), line 148
VectorRetrieverTopK(run) == run.embed_similarity_top_k

\* BM25Retriever.from_persist_dir(path=self.bm25_dir) (line 156) comes back
\* with the top-k it was persisted with; a new one is made with
\* similarity_top_k=self.embed_similarity_top_k (line 165)
Bm25RetrieverTopK(run) ==
    IF run.bm25_dir_exists
    THEN run.persisted_top_k
    ELSE run.embed_similarity_top_k

\* similarity_top_k=self.rerank_similarity_top_k, line 196
FusionTopK(run) == run.rerank_similarity_top_k

\* a retriever with top-k k on a corpus with `matches` matching passages:
\* the best Min(k, matches) of them, best first
RetrieveTopK(k, matches) == [j \in 1..Min(k, matches) |-> j]

\* the rankings of one query and of the one generated from it, and the
\* fused list
RetrieveConfigured(run) ==
    LET lexical == RetrieveTopK(Bm25RetrieverTopK(run), run.matches)
        dense == RetrieveTopK(VectorRetrieverTopK(run), run.matches)
        rankings == [q \in {ExpandedQueries[n] : n \in 1..Len(ExpandedQueries)} |->
                        [r \in Retrievers |-> IF r = "lexical" THEN lexical ELSE dense]]
    IN  [lexical |-> lexical, dense |-> dense,
         fused |-> Fuse(rankings, FusionTopK(run))]

InitTopK ==
    /\ PipelineInit
    /\ fs = << >>
    /\ ev_in = None
    /\ ev_out = None
    /\ IdleExcept("topk")
    /\ tk_in \in {Some(run) : run \in TopKRuns}
    /\ tk_out = None

\* LocalReRankRAG(...) followed by one retrieval
ConfiguredRetrieve ==
    /\ tk_in # None
    /\ tk_out = None
    /\ tk_out' = Some(RetrieveConfigured(Get(tk_in)))
    /\ UNCHANGED << pipeline_vars, ev_in, ev_out, cli_vars, wrap_vars, rag_vars, fusion_vars, data_vars, tk_in >>

NextTopK == ConfiguredRetrieve

SpecTopK == InitTopK /\ [][NextTopK]_vars

\* C23: each top-k governs its own stage: the lexical ranking has at most
\* bm25_similarity_top_k entries, the dense one at most
\* embed_similarity_top_k, the fused list at most rerank_similarity_top_k.
C23_EachTopKGovernsItsStage ==
    (tk_out # None /\ ~Get(tk_in).bm25_dir_exists) =>
        /\ Len(Get(tk_out).lexical) <= Get(tk_in).bm25_similarity_top_k
        /\ Len(Get(tk_out).dense) <= Get(tk_in).embed_similarity_top_k
        /\ Len(Get(tk_out).fused) <= Get(tk_in).rerank_similarity_top_k

(***************************************************************************)
(* OpenAIExtractor.extract, src/eval/llm/openai.py lines 96-192.           *)
(***************************************************************************)
MaxExtractItems == 2

\* JSON values as the extractor meets them: a str, or a number (kept as its
\* digits)
JStr(s) == [t |-> "str", v |-> s]
JInt(digits) == [t |-> "int", v |-> digits]

\* the values the model puts under "question" and under "answer"; None is
\* an absent key
QuestionValues == {None, Some(JStr(<< >>)), Some(JStr(<< "p" >>)), Some(JStr(<< "q" >>))}
AnswerValues ==
    {None, Some(JStr(<< >>)), Some(JStr(<< "A" >>)), Some(JStr(<< "b" >>)),
     Some(JStr(<< "E" >>)), Some(JStr(<< "A", "B" >>)), Some(JInt(<< "1" >>))}

\* the entries of the "questions" list: objects, and something that is none
ModelItems ==
    [isdict : {TRUE}, question : QuestionValues, answer : AnswerValues]
    \cup {[isdict |-> FALSE, question |-> None, answer |-> None]}

\* what client.chat.completions.create leads to: an API error, no tool
\* call, arguments that are not JSON, "questions" that is no list, or a list
ModelAnswers ==
    [kind : {"api_error", "no_tool_call", "invalid_json", "not_a_list"}, questions : {<< >>}]
    \cup [kind : {"list"}, questions : SeqUpTo(ModelItems, MaxExtractItems)]

\* item.get(key, ""), lines 158-159
GetOrEmpty(value) == IF IsNone(value) THEN JStr(<< >>) ELSE Get(value)

\* Python truthiness of a JSON value
JTruthy(j) == IF j.t = "str" THEN Len(j.v) > 0 ELSE j.v # << "0" >>

\* answer.upper() on a str
UpperStr(s) == [j \in 1..Len(s) |-> Upper(s[j])]

\* one pass of the loop body, lines 152-175: "skip", "keep" with the entry to
\* append, or "raise" when len(answer) meets a value that has no len
ProcessItem(item) ==
    IF ~item.isdict
    THEN [do |-> "skip"]
    ELSE LET question == GetOrEmpty(item.question)
             answer == GetOrEmpty(item.answer)
         IN  IF ~JTruthy(question) \/ ~JTruthy(answer)
             THEN [do |-> "skip"]
             ELSE IF answer.t # "str"
             THEN [do |-> "raise"]
             ELSE IF Len(answer.v) # 1 \/ UpperStr(answer.v) \notin LetterStrings
             THEN [do |-> "skip"]
             ELSE [do |-> "keep",
                   entry |-> [question |-> question.v, answer |-> UpperStr(answer.v)]]

\* the loop of lines 150-177 over the rest of questions_list
RECURSIVE ProcessQuestions(_, _)
ProcessQuestions(questions_list, processed_questions) ==
    IF questions_list = << >>
    THEN Return(processed_questions)
    ELSE LET pass == ProcessItem(Head(questions_list))
         IN  IF pass.do = "raise"
             THEN Raise("ValueError", "An unexpected error occurred")
             ELSE ProcessQuestions(Tail(questions_list),
                                   IF pass.do = "keep"
                                   THEN Append(processed_questions, pass.entry)
                                   ELSE processed_questions)

\* extract, lines 111-192: the outcome and the number of model calls
extract(html_content, model_answer) ==
    IF ~Truthy(html_content)
    THEN [outcome |-> Return(<< >>), model_calls |-> 0]
    ELSE [outcome |->
             CASE model_answer.kind = "api_error" -> Raise("ValueError", "OpenAI API error")
               [] model_answer.kind = "no_tool_call" -> Raise("ValueError", "The LLM did not call the function")
               [] model_answer.kind = "invalid_json" -> Raise("ValueError", "arguments are not valid JSON")
               [] model_answer.kind = "not_a_list" -> Raise("ValueError", "Expected 'questions' to be a list")
               [] OTHER -> ProcessQuestions(model_answer.questions, << >>),
          model_calls |-> 1]

InitExtract ==
    /\ PipelineInit
    /\ fs = << >>
    /\ ev_in = None
    /\ ev_out = None
    /\ IdleExcept("extractor")
    /\ ex_in \in {Some(c) : c \in [html_content : {<< >>, << "<" >>}, model_answer : ModelAnswers]}
    /\ ex_out = None

\* extractor.extract(html_content)
ExtractCall ==
    /\ ex_in # None
    /\ ex_out = None
    /\ ex_out' = Some(extract(Get(ex_in).html_content, Get(ex_in).model_answer))
    /\ UNCHANGED << pipeline_vars, ev_in, ev_out, cli_vars, wrap_vars, rag_vars,
                    fusion_vars, topk_vars, crawl_vars, ex_in >>

NextExtract == ExtractCall

SpecExtract == InitExtract /\ [][NextExtract]_vars

\* an entry of the model's list that extract is to keep: an object with a
\* non-empty question and an answer that is one letter of A-D in either case
Keepable(item) ==
    /\ item.isdict
    /\ ~IsNone(item.question)
    /\ ~IsNone(item.answer)
    /\ Get(item.question).t = "str"
    /\ Get(item.question).v # << >>
    /\ Get(item.answer).t = "str"
    /\ Get(item.answer).v \in {<< "A" >>, << "B" >>, << "C" >>, << "D" >>,
                               << "a" >>, << "b" >>, << "c" >>, << "d" >>}

\* the keepable entries of a list, in order, as extract returns them
RECURSIVE KeptInOrder(_)
KeptInOrder(items) ==
    IF items = << >> THEN << >>
    ELSE (IF Keepable(Head(items))
          THEN << [question |-> Get(Head(items).question).v,
                   answer |-> << Upper(Get(Head(items).answer).v[1]) >>] >>
          ELSE << >>)
         \o KeptInOrder(Tail(items))

\* C24: extract on empty input returns the empty list without a model
\* call; on a list from the model it returns, without aborting, the
\* keepable entries in their order, each with a non-empty question and one
\* upper-case letter of A-D as answer, and skips every other entry.
C24_ExtractKeepsValidItems ==
    ex_out # None =>
        LET call == Get(ex_in)
            out == Get(ex_out)
        IN  /\ call.html_content = << >> =>
                  /\ out.outcome = Return(<< >>)
                  /\ out.model_calls = 0
            /\ (call.html_content # << >> /\ call.model_answer.kind = "list") =>
                  /\ ~Raised(out.outcome)
                  /\ out.outcome = Return(KeptInOrder(call.model_answer.questions))
                  /\ \A j \in 1..Len(Get(out.outcome.ret)) :
                        /\ Get(out.outcome.ret)[j].question # << >>
                        /\ Get(out.outcome.ret)[j].answer \in LetterStrings

(***************************************************************************)
(* process_single_subject, src/eval/script/crawl_evaluation_dataset.py     *)
(* lines 32-105.                                                           *)
(***************************************************************************)
MaxUrls == 2

\* what pipeline.run(url) does for one URL: raise, return something that is
\* no list (NotAList stands for such a value), or return a list of items
NotAList == << "not-a-list" >>

RunBehaviours ==
    {Raise("ValueError", "run failed"), Return(NotAList)}
    \cup {Return(l) : l \in {<< >>, << "x" >>, << "y", "x" >>}}

\* isinstance(results, list)
IsList(run_results) == run_results # NotAList

\* the loop body with no try around pipeline.run
UrlStepPropagates(c, behaviour) ==
    IF Raised(behaviour)
    THEN [c EXCEPT !.pc = "raised", !.ran = Append(c.ran, behaviour)]
    ELSE LET run_results == Get(behaviour.ret)
         IN  [c EXCEPT !.i = c.i + 1,
                       !.ran = Append(c.ran, behaviour),
                       !.all_subject_results =
                           IF IsList(run_results) /\ Truthy(run_results)
                           THEN c.all_subject_results \o run_results
                           ELSE c.all_subject_results,
                       !.processed_urls_count =
                           IF IsList(run_results) /\ Truthy(run_results)
                           THEN c.processed_urls_count + 1
                           ELSE c.processed_urls_count]

\* one pass of the loop body, lines 64-83: a non-empty list extends
\* all_subject_results; an empty list, another value or an exception only
\* gets logged
UrlStep(c, behaviour) ==
    IF Raised(behaviour)
    THEN [c EXCEPT !.i = c.i + 1, !.ran = Append(c.ran, behaviour)]
    ELSE LET run_results == Get(behaviour.ret)
         IN  [c EXCEPT !.i = c.i + 1,
                       !.ran = Append(c.ran, behaviour),
                       !.all_subject_results =
                           IF IsList(run_results) /\ Truthy(run_results)
                           THEN c.all_subject_results \o run_results
                           ELSE c.all_subject_results,
                       !.processed_urls_count =
                           IF IsList(run_results) /\ Truthy(run_results)
                           THEN c.processed_urls_count + 1
                           ELSE c.processed_urls_count]

InitCrawl ==
    /\ PipelineInit
    /\ fs = << >>
    /\ ev_in = None
    /\ ev_out = None
    /\ IdleExcept("crawl")
    /\ cr_in \in {Some(d) : d \in [urls_txt_exists : BOOLEAN,
                                   urls : 0..MaxUrls,
                                   dataset_json : {None, Some(<< "old" >>)}]}
    /\ crawl = None

\* process_single_subject(pipeline, subject_path, subject_name), lines 48-60
\* and 84-86: without urls.txt the call returns at once
ProcessSingleSubject ==
    /\ cr_in # None
    /\ crawl = None
    /\ crawl' = Some([pc |-> IF Get(cr_in).urls_txt_exists THEN "loop" ELSE "done",
                      i |-> 0,
                      all_subject_results |-> << >>,
                      processed_urls_count |-> 0,
                      ran |-> << >>,
                      dataset_json |-> Get(cr_in).dataset_json,
                      writes |-> 0])
    /\ UNCHANGED << pipeline_vars, ev_in, ev_out, cli_vars, wrap_vars, rag_vars,
                    fusion_vars, topk_vars, extract_vars, cr_in >>

\* the next URL of the loop of lines 63-83
RunUrl ==
    /\ crawl # None
    /\ Get(crawl).pc = "loop"
    /\ Get(crawl).i < Get(cr_in).urls
    /\ \E behaviour \in RunBehaviours :
          crawl' = Some(UrlStep(Get(crawl), behaviour))
    /\ UNCHANGED << pipeline_vars, ev_in, ev_out, cli_vars, wrap_vars, rag_vars,
                    fusion_vars, topk_vars, extract_vars, cr_in >>

\* after the loop, lines 89-105: json.dump of a non-empty all_subject_results
\* over dataset.json, nothing otherwise
SaveDataset ==
    /\ crawl # None
    /\ Get(crawl).pc = "loop"
    /\ Get(crawl).i = Get(cr_in).urls
    /\ crawl' = Some(IF Truthy(Get(crawl).all_subject_results)
                     THEN [Get(crawl) EXCEPT !.pc = "done",
                                             !.dataset_json = Some(Get(crawl).all_subject_results),
                                             !.writes = Get(crawl).writes + 1]
                     ELSE [Get(crawl) EXCEPT !.pc = "done"])
    /\ UNCHANGED << pipeline_vars, ev_in, ev_out, cli_vars, wrap_vars, rag_vars,
                    fusion_vars, topk_vars, extract_vars, cr_in >>

NextCrawl == ProcessSingleSubject \/ RunUrl \/ SaveDataset

SpecCrawl == InitCrawl /\ [][NextCrawl]_vars

\* the results of the runs that returned a non-empty list, in order
RECURSIVE ConcatNonEmptyLists(_)
ConcatNonEmptyLists(ran) ==
    IF ran = << >> THEN << >>
    ELSE (IF ~Raised(Head(ran)) /\ Get(Head(ran).ret) \in {<< "x" >>, << "y", "x" >>}
          THEN Get(Head(ran).ret) ELSE << >>)
         \o ConcatNonEmptyLists(Tail(ran))

\* C25: no exception of pipeline.run leaves process_single_subject: after
\* a failing URL the following ones are run; when the call is done every
\* URL has been run once, dataset.json holds the in-order concatenation of
\* the non-empty result lists, and without urls.txt or without any data
\* nothing is written and an earlier dataset.json stays as it was.
C25_UrlFailuresAreIsolated ==
    crawl # None =>
        LET c == Get(crawl)
            d == Get(cr_in)
        IN  /\ c.pc \in {"loop", "done"}
            /\ Len(c.ran) = c.i
            /\ c.all_subject_results = ConcatNonEmptyLists(c.ran)
            /\ c.pc = "loop" => c.dataset_json = d.dataset_json /\ c.writes = 0
            /\ c.pc = "done" =>
                  IF d.urls_txt_exists /\ ConcatNonEmptyLists(c.ran) # << >>
                  THEN /\ Len(c.ran) = d.urls
                       /\ c.dataset_json = Some(ConcatNonEmptyLists(c.ran))
                       /\ c.writes = 1
                  ELSE /\ Len(c.ran) = (IF d.urls_txt_exists THEN d.urls ELSE 0)
                       /\ c.dataset_json = d.dataset_json
                       /\ c.writes = 0

\* the first URL failed, the second gave data, and that data replaced the
\* earlier dataset.json
C25_Witness ==
    /\ crawl # None
    /\ Get(crawl).pc = "done"
    /\ Len(Get(crawl).ran) = 2
    /\ Raised(Get(crawl).ran[1])
    /\ Get(crawl).ran[2] = Return(<< "y", "x" >>)
    /\ Get(cr_in).dataset_json = Some(<< "old" >>)
    /\ Get(crawl).dataset_json = Some(<< "y", "x" >>)

(***************************************************************************)
(* Frame of a per-item failure in evaluate_dataset.                        *)
(***************************************************************************)
\* C26, step part: self.results only ever grows by one result at its end,
\* the result of the current item, as the last thing done for that item;
\* an item in the except clause gets its result, and no item is left
\* without one.
C26_OneAppendPerItem ==
    /\ results' # results =>
          /\ phase = "RUNNING"
          /\ step \in {"store", "except"}
          /\ Len(results') = Len(results) + 1
          /\ SubSeq(results', 1, Len(results)) = results
          /\ results'[Len(results')].question_id = i
          /\ results'[Len(results')].question = dataset[i + 1].question
          /\ i' = i + 1
    /\ InExcept =>
          /\ Len(results') = Len(results) + 1
          /\ results'[Len(results')].rag_response = Some(ErrorText)
    /\ (phase = "RUNNING" /\ i' # i) => Len(results') = Len(results) + 1
    /\ (phase = "RUNNING" /\ phase' = "RAISED") =>
          /\ ~HasKeys(dataset[i + 1])
          /\ step = "call"
          /\ results' = results

\* C26 as stated, its last part: no item contributes zero results: a run
\* never ends with an item of its dataset reached and left without a result.
C26_NoItemWithoutResult ==
    (phase = "RAISED" /\ dataset # << >>) => i = Len(dataset)

\* C26: a failure of the backend call or of the evaluator call for an item
\* leaves the results appended before as they are and appends exactly one
\* result for that item; every item of a run that is done has exactly one
\* result; only an item without its question or answer key ends the run, with
\* no result for it and the earlier results as they are.
C26_FailureAppendsExactlyOne ==
    /\ [][C26_OneAppendPerItem]_vars
    /\ [](phase = "DONE" =>
            /\ Len(results) >= Len(dataset)
            /\ \A k \in 0..(Len(dataset) - 1) : RunResult(Len(dataset), k).question_id = k)

\* the first item failed in the backend and has its one error result; the
\* second item lacks a key and ended the run without a result
C26_Witness ==
    /\ phase = "RAISED"
    /\ Get(caught).type = "KeyError"
    /\ Len(dataset) = 2
    /\ i = 1
    /\ Len(results) = 1
    /\ results[1].question_id = 0
    /\ results[1].feedback = << "Error: ", "backend failed" >>

====
